---- MODULE Spec2Model ----
(***************************************************************************)
(* ISE Cloud Services Calculator: the tiered-pricing engine                *)
(* (cost_calculator.py), the service-catalog loader (service_loader.py),   *)
(* the subscription ledger (subscription_manager.py) and the menu loop     *)
(* (icsc.py, ui_handler.py).                                               *)
(*                                                                         *)
(* Numbers: the program computes with Python floats; the model computes    *)
(* with integers (amounts in whole units, rates in whole currency units    *)
(* per unit); the one float that no integer stands for, float('nan'), is   *)
(* the value NaN, on which every ordering comparison is false.  Text: a    *)
(* Python str is a sequence of one-character strings, so that split, strip *)
(* and float() are computed character by character.                        *)
(* Python sequences are 0-based: At(s, i) reads the Python element s[i].   *)
(***************************************************************************)
EXTENDS Integers, Sequences, FiniteSets, TLC

VARIABLES
    amount,    \* pricing call: the amount argument
    tiers,     \* pricing call: the tiers argument
    costs,     \* pricing call: the costs argument
    op,        \* the function that was called ("idle" before the call)
    result,    \* the number the called pricing function returned
    raised,    \* the exception the called pricing function raised, or "none"
    lines,     \* parse_service_entry / load_services: the list of lines
    index,     \* parse_service_entry: the index argument
    entry,     \* parse_service_entry: the returned dict, or None
    source,    \* load_services: the file (Missing, or its raw lines)
    services,  \* load_services: the services dict being built
    i,         \* load_services: the loop variable i
    examined,  \* load_services: the indexes handed to parse_service_entry
    outcome,   \* load_services: "start", "loop", "returned" or the exception
    subscriptions, \* the subscriptions dict (the ledger)
    arg,       \* ledger call: the arguments of the last call
    ret,       \* ledger call: what the last call returned
    pc,        \* main: "start", "menu_prompt", "amount_prompt", "exit"
    typed,     \* main: what the last input() call got (text or exception)
    exhausted, \* main: standard input is at its end for good
    choice,    \* main: the last value get_user_choice returned
    selected,  \* main: the service whose amount is being asked for
    output,    \* main: what was printed since the last prompt was answered
    status,    \* main: the exit status of the process
    seen       \* main: what has happened so far (menu, choice, ledger)

vars == <<amount, tiers, costs, op, result, raised, lines, index, entry,
          source, services, i, examined, outcome,
          subscriptions, arg, ret, pc, typed, exhausted, choice, selected, output,
          status, seen>>

pricingVars == <<amount, tiers, costs, result, raised>>
parseVars == <<index, entry>>
loadVars == <<source, services, i, examined, outcome>>
ledgerVars == <<subscriptions, arg, ret>>
mainVars == <<pc, typed, exhausted, choice, selected, output, status,
              seen>>

(***************************************************************************)
(* Bounds of the model.                                                    *)
(***************************************************************************)
MaxTiers == 3
MaxAmount == 5
MaxLines == 6
MaxParseLines == 4

\* Tier boundaries and rates the pricing calls are tried on.  A negative
\* boundary and a zero boundary are both included.
TierVals == {-1, 0, 2, 4}
RateVals == {1, 3}
Amounts == (0 - 2) .. MaxAmount

(***************************************************************************)
(* Python helpers.                                                         *)
(***************************************************************************)
At(s, k) == s[k + 1]

\* range(a, b) as a set
Range(a, b) == a .. (b - 1)

\* float('nan'): not below, equal to or above any number, itself included.
\* It is kept apart from the integers the model computes with.
NaN == 0 - 1000
NanText == <<"n", "a", "n">>

\* The comparisons of Python floats
FLt(a, b) == a # NaN /\ b # NaN /\ a < b
FLe(a, b) == a # NaN /\ b # NaN /\ a <= b
FGt(a, b) == a # NaN /\ b # NaN /\ a > b
FGe(a, b) == a # NaN /\ b # NaN /\ a >= b

\* The product of Python floats
FMul(a, b) == IF a = NaN \/ b = NaN THEN NaN ELSE a * b

\* seq[k] on a Python list raises IndexError
IndexRaises(seq, k) == ~(0 - Len(seq) <= k /\ k < Len(seq))

(***************************************************************************)
(* cost_calculator.py                                                      *)
(***************************************************************************)
RECURSIVE ScanDown(_, _, _)
\* The loop of find_tier_index: for i in range(len(tiers) - 1, -1, -1)
ScanDown(amt, ts, k) ==
    IF k < 0 THEN 0
    ELSE IF FGe(amt, At(ts, k)) THEN k
    ELSE ScanDown(amt, ts, k - 1)

RECURSIVE ScanDownExclusive(_, _, _)
\* Mutation: an exclusive boundary test (amount > tiers[i]).
ScanDownExclusive(amt, ts, k) ==
    IF k < 0 THEN 0
    ELSE IF amt > At(ts, k) THEN k
    ELSE ScanDownExclusive(amt, ts, k - 1)

find_tier_index_exclusive(amt, ts) == ScanDownExclusive(amt, ts, Len(ts) - 1)

\* Mutation: the fallback after the loop returns the last index.
find_tier_index_fallback_last(amt, ts) ==
    IF \E k \in Range(0, Len(ts)) : amt >= At(ts, k)
    THEN ScanDown(amt, ts, Len(ts) - 1)
    ELSE Len(ts) - 1

find_tier_index(amt, ts) == ScanDown(amt, ts, Len(ts) - 1)

RECURSIVE MarginalSum(_, _, _, _)
\* Progressive billing: every band is billed at its own rate.
MarginalSum(amt, ts, cs, k) ==
    IF k > Len(ts) - 1 THEN 0
    ELSE IF amt <= At(ts, k) THEN 0
    ELSE LET top == IF k = Len(ts) - 1 \/ amt < At(ts, k + 1)
                    THEN amt ELSE At(ts, k + 1)
         IN (top - At(ts, k)) * At(cs, k) + MarginalSum(amt, ts, cs, k + 1)

\* Mutation: progressive (marginal) pricing instead of one rate for all.
calculate_cost_marginal(amt, ts, cs) ==
    IF amt < 0 THEN 0
    ELSE IF amt = 0 THEN 0
    ELSE MarginalSum(amt, ts, cs, 0)

\* Mutation: the two early returns for amount <= 0 are missing.
calculate_cost_no_floor(amt, ts, cs) ==
    amt * At(cs, find_tier_index(amt, ts))

\* calculate_cost ends with the IndexError of costs[tier_index]
calculate_cost_raises(amt, ts, cs) ==
    /\ ~FLt(amt, 0)
    /\ amt # 0
    /\ IndexRaises(cs, find_tier_index(amt, ts))

calculate_cost(amt, ts, cs) ==
    IF FLt(amt, 0) THEN 0
    ELSE IF amt = 0 THEN 0
    ELSE FMul(amt, At(cs, find_tier_index(amt, ts)))

\* Mutation: the amount == 0 early return of calculate_cost copied here.
get_cost_per_unit_zero_is_free(amt, ts, cs) ==
    IF amt < 0 THEN 0
    ELSE IF amt = 0 THEN 0
    ELSE At(cs, find_tier_index(amt, ts))

\* Mutation: the rate of the first tier whatever the amount.
get_cost_per_unit_first_rate(amt, ts, cs) ==
    IF FLt(amt, 0) THEN 0
    ELSE At(cs, 0)

\* get_cost_per_unit ends with the IndexError of costs[tier_index]
get_cost_per_unit_raises(amt, ts, cs) ==
    /\ ~FLt(amt, 0)
    /\ IndexRaises(cs, find_tier_index(amt, ts))

get_cost_per_unit(amt, ts, cs) ==
    IF FLt(amt, 0) THEN 0
    ELSE At(cs, find_tier_index(amt, ts))

(***************************************************************************)
(* Python str operations, on sequences of one-character strings.  The      *)
(* alphabet of the model is letters, digits, "-", "," and the space; the   *)
(* only whitespace is the space and float() is given no ".", exponent,     *)
(* "inf" or "_" (none of them occurs in the texts of the model); "nan" is  *)
(* read in lower case only.                                                *)
(***************************************************************************)
SP == " "
COMMA == ","
Digits == <<"0", "1", "2", "3", "4", "5", "6", "7", "8", "9">>
DigitSet == {Digits[k] : k \in 1..Len(Digits)}
DigitVal(c) == (CHOOSE k \in 1..Len(Digits) : Digits[k] = c) - 1

RECURSIVE lstrip(_)
lstrip(s) == IF s # <<>> /\ Head(s) = SP THEN lstrip(Tail(s)) ELSE s

RECURSIVE rstrip(_)
rstrip(s) ==
    IF s # <<>> /\ s[Len(s)] = SP THEN rstrip(SubSeq(s, 1, Len(s) - 1)) ELSE s

\* str.strip()
strip(s) == rstrip(lstrip(s))

RECURSIVE split(_)
\* str.split(','): "" gives [""], "a," gives ["a", ""]
split(s) ==
    IF \A k \in 1..Len(s) : s[k] # COMMA THEN <<s>>
    ELSE LET c == CHOOSE k \in 1..Len(s) :
                      s[k] = COMMA /\ \A j \in 1..(k - 1) : s[j] # COMMA
         IN <<SubSeq(s, 1, c - 1)>> \o split(SubSeq(s, c + 1, Len(s)))

RECURSIVE DecimalValue(_)
DecimalValue(ds) ==
    IF ds = <<>> THEN 0
    ELSE 10 * DecimalValue(SubSeq(ds, 1, Len(ds) - 1)) + DigitVal(ds[Len(ds)])

\* float(s) raises ValueError unless s is an optional sign and digits, or
\* an optional sign and nan
FloatRaises(s) ==
    LET t == strip(s)
        body == IF t # <<>> /\ Head(t) \in {"-", "+"} THEN Tail(t) ELSE t
    IN /\ body # NanText
       /\ \/ body = <<>>
          \/ \E k \in 1..Len(body) : body[k] \notin DigitSet

\* float(s), when it does not raise
float(s) ==
    LET t == strip(s)
        body == IF t # <<>> /\ Head(t) \in {"-", "+"} THEN Tail(t) ELSE t
    IN IF body = NanText THEN NaN
       ELSE IF Head(t) = "-" THEN 0 - DecimalValue(body)
       ELSE DecimalValue(body)

(***************************************************************************)
(* service_loader.py                                                       *)
(***************************************************************************)
None == [none |-> TRUE]
Raised(e) == [exc |-> e]
IsRaised(r) == "exc" \in DOMAIN r

\* [float(t.strip()) for t in line]
Floats(toks) == [k \in 1..Len(toks) |-> float(strip(toks[k]))]
AnyFloatRaises(toks) == \E k \in 1..Len(toks) : FloatRaises(strip(toks[k]))

\* Mutation: the ascending check accepts equal adjacent boundaries.
TiersOutOfOrder_allow_equal(ts) ==
    \E k \in Range(0, Len(ts) - 1) : FGt(At(ts, k), At(ts, k + 1))

\* The validation loop: some tiers[i] >= tiers[i + 1]
TiersOutOfOrder(ts) ==
    \E k \in Range(0, Len(ts) - 1) : FGe(At(ts, k), At(ts, k + 1))

\* Mutation: tiers and costs of different lengths are accepted.
LengthsDiffer_unchecked(ts, cs) == FALSE

\* if len(tiers) != len(costs): return None
LengthsDiffer(ts, cs) == Len(ts) # Len(cs)

\* Mutation: the name and the units are stored without strip().
ServiceData_unstripped(name_line, ts, cs) ==
    [name |-> At(name_line, 0), units |-> At(name_line, 1),
     tiers |-> ts, costs |-> cs]

\* The dict parse_service_entry returns
ServiceData(name_line, ts, cs) ==
    [name |-> strip(At(name_line, 0)), units |-> strip(At(name_line, 1)),
     tiers |-> ts, costs |-> cs]

\* The body of the try block: the returned value, or the exception raised.
\* index is never negative here.
ParseTry(ls, idx) ==
    IF idx >= Len(ls) THEN Raised("IndexError")
    ELSE LET name_line == split(At(ls, idx)) IN
    IF Len(name_line) # 2 THEN None
    ELSE IF idx + 1 >= Len(ls) THEN Raised("IndexError")
    ELSE LET tier_line == split(At(ls, idx + 1)) IN
    IF AnyFloatRaises(tier_line) THEN Raised("ValueError")
    ELSE IF idx + 2 >= Len(ls) THEN Raised("IndexError")
    ELSE LET cost_line == split(At(ls, idx + 2)) IN
    IF AnyFloatRaises(cost_line) THEN Raised("ValueError")
    ELSE LET ts == Floats(tier_line)
             cs == Floats(cost_line) IN
    IF LengthsDiffer(ts, cs) THEN None
    ELSE IF TiersOutOfOrder(ts) THEN None
    ELSE ServiceData(name_line, ts, cs)

\* Mutation: the except clause catches ValueError only.
Caught_value_error_only == {"ValueError"}

\* except (ValueError, IndexError)
Caught == {"ValueError", "IndexError"}

parse_service_entry(ls, idx) ==
    LET r == ParseTry(ls, idx)
    IN IF IsRaised(r) /\ r.exc \in Caught THEN None ELSE r

validate_service_data(service) ==
    IF Len(service.tiers) # Len(service.costs) THEN FALSE
    ELSE IF Len(service.tiers) = 0 THEN FALSE
    ELSE IF \E k \in 1..Len(service.tiers) : FLt(service.tiers[k], 0)
        THEN FALSE
    ELSE IF \E k \in 1..Len(service.costs) : FLe(service.costs[k], 0)
        THEN FALSE
    ELSE TRUE

\* The file of load_services: absent, or its lines as written.
NoFile == [exists |-> FALSE, raw |-> <<>>]
File(raw) == [exists |-> TRUE, raw |-> raw]

NonBlank(l) == strip(l) # <<>>

\* [line.strip() for line in file.readlines() if line.strip()]
ReadLines(raw) ==
    LET kept == SelectSeq(raw, NonBlank)
    IN [k \in 1..Len(kept) |-> strip(kept[k])]

\* d[key] = value on a dict
DictSet(d, key, value) ==
    [x \in DOMAIN d \cup {key} |-> IF x = key THEN value ELSE d[x]]

\* Mutation: an entry whose name is already loaded is not stored again.
StoreEntry_keep_first(svcs, e) ==
    IF e.name \in DOMAIN svcs THEN svcs
    ELSE DictSet(svcs, e.name,
                 [units |-> e.units, tiers |-> e.tiers, costs |-> e.costs])

\* services[service_data['name']] = {...}
StoreEntry(svcs, e) ==
    DictSet(svcs, e.name,
            [units |-> e.units, tiers |-> e.tiers, costs |-> e.costs])

\* The loop goes on: i < len(lines) and not i + 2 >= len(lines)
LoopContinues(n, ls) == n < Len(ls) /\ ~(n + 2 >= Len(ls))

\* Mutation: after a window that failed, the loader moves on by one line.
NextIndex_resync(n, parsed) == IF parsed = None THEN n + 1 ELSE n + 3

\* i += 3
NextIndex(n, parsed) == n + 3

\* Mutation: an empty catalog is returned like any other.
LoadResult_never_raises(svcs) == "returned"

\* if not services: raise ValueError(...); return services
LoadResult(svcs) == IF DOMAIN svcs = {} THEN "ValueError" ELSE "returned"

(***************************************************************************)
(* subscription_manager.py.  A function that changes the dict it is given  *)
(* yields the dict after the call along with what it returns.              *)
(***************************************************************************)
create_subscriptions == <<>>

\* Mutation: the amount is stored without the test for a negative one.
add_subscription_unchecked(subs, service_name, amt) ==
    [ret |-> TRUE, subscriptions |-> DictSet(subs, service_name, amt)]

\* Mutation: the amount is added to the one already stored.
add_subscription_accumulating(subs, service_name, amt) ==
    IF FLt(amt, 0) THEN [ret |-> FALSE, subscriptions |-> subs]
    ELSE [ret |-> TRUE,
          subscriptions |->
              DictSet(subs, service_name,
                      IF service_name \in DOMAIN subs
                      THEN subs[service_name] + amt ELSE amt)]

add_subscription(subs, service_name, amt) ==
    IF FLt(amt, 0) THEN [ret |-> FALSE, subscriptions |-> subs]
    ELSE [ret |-> TRUE, subscriptions |-> DictSet(subs, service_name, amt)]

\* subscriptions.get(service_name, 0.0)
get_subscription_amount(subs, service_name) ==
    IF service_name \in DOMAIN subs THEN subs[service_name] ELSE 0

\* Mutation: entries stored as 0 count as active.
get_all_subscriptions_with_zero(subs) ==
    [n \in {x \in DOMAIN subs : FGe(subs[x], 0)} |-> subs[n]]

get_all_subscriptions(subs) ==
    [n \in {x \in DOMAIN subs : FGt(subs[x], 0)} |-> subs[n]]

has_subscriptions(subs) == \E n \in DOMAIN subs : FGt(subs[n], 0)

remove_subscription(subs, service_name) ==
    IF service_name \in DOMAIN subs
    THEN [ret |-> TRUE, subscriptions |-> DictSet(subs, service_name, 0)]
    ELSE [ret |-> FALSE, subscriptions |-> subs]

clear_all_subscriptions(subs) == <<>>

(***************************************************************************)
(* sorted() on strings: characters in code point order.                    *)
(***************************************************************************)
CharOrder ==
    <<" ", "$", "+", ",", "-", "0", "1", "2", "3", "4", "5", "6", "7", "8",
      "9", "A", "B", "C", "Q", "S", "a", "g", "h", "n", "q", "s", "x", "²">>
Ord(c) == CHOOSE k \in 1..Len(CharOrder) : CharOrder[k] = c

RECURSIVE StrLess(_, _)
\* a < b on strings
StrLess(a, b) ==
    IF b = <<>> THEN FALSE
    ELSE IF a = <<>> THEN TRUE
    ELSE IF Head(a) # Head(b) THEN Ord(Head(a)) < Ord(Head(b))
    ELSE StrLess(Tail(a), Tail(b))

RECURSIVE sorted(_)
\* sorted(keys): the strings of a set in ascending order
sorted(S) ==
    IF S = {} THEN <<>>
    ELSE LET least == CHOOSE x \in S : \A y \in S \ {x} : StrLess(x, y)
         IN <<least>> \o sorted(S \ {least})

(***************************************************************************)
(* The totals: calculate_total_cost (cost_calculator.py) and               *)
(* display_cost_breakdown (ui_handler.py).                                 *)
(***************************************************************************)
RECURSIVE TotalOver(_, _, _)
\* The loop of calculate_total_cost over the items not yet visited
TotalOver(names, subs, svcs) ==
    IF names = {} THEN 0
    ELSE LET service_name == CHOOSE x \in names : TRUE
             amt == subs[service_name]
             cost == IF service_name \in DOMAIN svcs /\ FGt(amt, 0)
                     THEN calculate_cost(amt, svcs[service_name].tiers,
                                         svcs[service_name].costs)
                     ELSE 0
         IN cost + TotalOver(names \ {service_name}, subs, svcs)

calculate_total_cost(subs, svcs) == TotalOver(DOMAIN subs, subs, svcs)

\* Mutation: the total adds up the unit rates instead of the costs.
BreakdownRow_rate_as_cost(service_name, amt, service) ==
    [name |-> service_name,
     amount |-> amt,
     per_unit_cost |-> get_cost_per_unit(amt, service.tiers, service.costs),
     cost |-> get_cost_per_unit(amt, service.tiers, service.costs)]

\* One line "name: amount @ rate = cost" of the breakdown
BreakdownRow(service_name, amt, service) ==
    [name |-> service_name,
     amount |-> amt,
     per_unit_cost |-> get_cost_per_unit(amt, service.tiers, service.costs),
     cost |-> calculate_cost(amt, service.tiers, service.costs)]

RECURSIVE BreakdownLoop(_, _, _, _, _)
\* The loop over sorted(active_subs.items()): the rows printed and the total
BreakdownLoop(names, k, active, svcs, acc) ==
    IF k > Len(names) THEN acc
    ELSE IF names[k] \in DOMAIN svcs
    THEN LET row == BreakdownRow(names[k], active[names[k]], svcs[names[k]])
         IN BreakdownLoop(names, k + 1, active, svcs,
                          [rows |-> Append(acc.rows, row),
                           total |-> acc.total + row.cost])
    ELSE BreakdownLoop(names, k + 1, active, svcs, acc)

\* What display_cost_breakdown prints: no total when nothing is active,
\* otherwise the rows and the grand total (before format_currency)
display_cost_breakdown(subs, svcs) ==
    LET active_subs == [n \in {x \in DOMAIN subs : FGt(subs[x], 0)} |-> subs[n]]
    IN IF DOMAIN active_subs = {}
       THEN [has_total |-> FALSE, rows |-> <<>>, total |-> 0]
       ELSE LET done == BreakdownLoop(sorted(DOMAIN active_subs), 1,
                                      active_subs, svcs,
                                      [rows |-> <<>>, total |-> 0])
            IN [has_total |-> TRUE, rows |-> done.rows, total |-> done.total]

(***************************************************************************)
(* The prompts (ui_handler.py) and the menu loop (icsc.py).  An input()    *)
(* call gets a line of text or raises EOFError or KeyboardInterrupt.       *)
(***************************************************************************)
Typed(text) == [raises |-> "none", text |-> text]
Interrupted(e) == [raises |-> e, text |-> <<>>]
NoInput == Typed(<<>>)

SUPER2 == "²"

\* str.lower() on the characters of the pools
LowerChar(c) == IF c = "Q" THEN "q" ELSE IF c = "S" THEN "s" ELSE c
lower(s) == [k \in 1..Len(s) |-> LowerChar(s[k])]

\* str.isdigit(): not empty and every character has the digit property,
\* which the superscript two has although int() does not accept it
isdigit(s) == s # <<>> /\ \A k \in 1..Len(s) : s[k] \in DigitSet \cup {SUPER2}

\* int(s) on a string of isdigit characters: ValueError or the value
IntRaises(s) == \E k \in 1..Len(s) : s[k] \notin DigitSet
int(s) == DecimalValue(s)

\* Mutation: EOFError and KeyboardInterrupt give an empty choice.
get_user_choice_blank_on_eof(inp) ==
    IF inp.raises \in {"EOFError", "KeyboardInterrupt"} THEN <<>>
    ELSE lower(strip(inp.text))

\* get_user_choice: the stripped, lowered line; 'q' on EOF or interrupt
get_user_choice(inp) ==
    IF inp.raises \in {"EOFError", "KeyboardInterrupt"} THEN <<"q">>
    ELSE lower(strip(inp.text))

\* get_amount_input from the input() call on: the amount or None, and the
\* error it printed
get_amount_input(inp) ==
    IF inp.raises \in {"EOFError", "KeyboardInterrupt"}
    THEN [is_none |-> TRUE, amount |-> 0, printed |-> <<>>]
    ELSE LET user_input == strip(inp.text) IN
    IF user_input = <<>>
    THEN [is_none |-> TRUE, amount |-> 0, printed |-> <<>>]
    ELSE IF FloatRaises(user_input)
    THEN [is_none |-> TRUE, amount |-> 0,
          printed |-> <<"Error: Please enter a valid number.">>]
    ELSE IF FLt(float(user_input), 0)
    THEN [is_none |-> TRUE, amount |-> 0,
          printed |-> <<"Error: Amount cannot be negative.">>]
    ELSE [is_none |-> FALSE, amount |-> float(user_input), printed |-> <<>>]

RECURSIVE LoadLoop(_, _, _)
\* The while loop of load_services, run to its end
LoadLoop(ls, n, svcs) ==
    IF LoopContinues(n, ls)
    THEN LET service_data == parse_service_entry(ls, n)
         IN LoadLoop(ls, NextIndex(n, service_data),
                     IF service_data # None
                     THEN StoreEntry(svcs, service_data)
                     ELSE svcs)
    ELSE svcs

\* load_services as one call: how it ended and the dict it returned
load_services(src) ==
    IF ~src.exists
    THEN [outcome |-> "FileNotFoundError", services |-> <<>>, lines |-> <<>>]
    ELSE LET ls == ReadLines(src.raw)
             svcs == LoadLoop(ls, 0, <<>>)
         IN [outcome |-> LoadResult(svcs), services |-> svcs, lines |-> ls]

\* Mutation: only a missing file ends the program.
Fatal_missing_file_only == {"FileNotFoundError"}

\* The exceptions of load_services on which main calls sys.exit(1)
Fatal == {"FileNotFoundError", "ValueError"}

\* The branch of the if/elif chain of main taken for a choice
Dispatch(c) ==
    IF c = <<"q">> THEN "quit"
    ELSE IF c = <<"s">> THEN "list"
    ELSE IF c = <<"$">> THEN "breakdown"
    ELSE IF isdigit(c) THEN "select"
    ELSE "invalid"

\* The numbered lines of display_main_menu: enumerate(service_names, 1)
MenuNumbering(svcs) ==
    LET service_names == sorted(DOMAIN svcs)
    IN [k \in 1..Len(service_names) |-> service_names[k]]

\* Mutation: the choice is used as the index without the - 1.
ServiceIndex_no_offset(c) == int(c)

\* service_index = int(choice) - 1
ServiceIndex(c) == int(c) - 1

\* process_service_selection up to the amount prompt: the service found,
\* or what was printed before returning False
SelectService(c, svcs) ==
    IF IntRaises(c)
    THEN [found |-> FALSE, service_name |-> <<>>, printed |-> <<>>]
    ELSE LET service_index == ServiceIndex(c)
             service_names == sorted(DOMAIN svcs)
         IN IF 0 <= service_index /\ service_index < Len(service_names)
            THEN [found |-> TRUE,
                  service_name |-> At(service_names, service_index),
                  printed |-> <<"You chose", "Current amount", "Enter new">>]
            ELSE [found |-> FALSE, service_name |-> <<>>,
                  printed |-> <<"Error: Invalid service number.">>]

\* Mutation: the amount is stored into the catalog in place of the tiers.
StoreAmount_into_catalog(subs, svcs, service_name, amt) ==
    [subscriptions |-> subs,
     services |-> DictSet(svcs, service_name,
                          [units |-> svcs[service_name].units,
                           tiers |-> <<amt>>,
                           costs |-> <<amt>>])]

\* add_subscription(subscriptions, service_name, amount) in
\* process_service_selection: the two dicts afterwards
StoreAmount(subs, svcs, service_name, amt) ==
    [subscriptions |-> add_subscription(subs, service_name, amt).subscriptions,
     services |-> svcs]

\* process_service_selection from the amount prompt on
UpdateFromAmount(subs, svcs, service_name, inp) ==
    LET got == get_amount_input(inp)
    IN IF got.is_none
       THEN [subscriptions |-> subs, services |-> svcs,
             printed |-> got.printed]
       ELSE LET after == StoreAmount(subs, svcs, service_name, got.amount)
            IN [subscriptions |-> after.subscriptions,
                services |-> after.services,
                printed |-> <<"Subscription updated">>]

(***************************************************************************)
(* Calls of the pricing functions on arbitrary arguments.                  *)
(***************************************************************************)
TierSeqs == UNION {[1..n -> TierVals] : n \in 1..MaxTiers}

Idle == "idle"

\* The ledger and the menu loop before anything ran
LedgerIdle ==
    /\ subscriptions = <<>>
    /\ arg = [name |-> <<>>, amount |-> 0]
    /\ ret = 0

MainIdle ==
    /\ pc = "start"
    /\ typed = NoInput
    /\ exhausted = FALSE
    /\ choice = <<>>
    /\ selected = <<>>
    /\ output = <<>>
    /\ status = 0
    /\ seen = {}

InitPricing ==
    /\ LedgerIdle
    /\ MainIdle
    /\ amount \in Amounts
    /\ tiers \in TierSeqs
    /\ costs \in [1..Len(tiers) -> RateVals]
    /\ op = Idle
    /\ result = 0
    /\ raised = "none"
    /\ lines = <<>>
    /\ index = 0
    /\ entry = None
    /\ source = <<>>
    /\ services = <<>>
    /\ i = 0
    /\ examined = <<>>
    /\ outcome = "start"

CallFindTierIndex ==
    /\ op = Idle
    /\ op' = "find_tier_index"
    /\ result' = find_tier_index(amount, tiers)
    /\ raised' = "none"
    /\ UNCHANGED <<amount, tiers, costs, lines, parseVars, loadVars, ledgerVars,
                   mainVars>>

CallCalculateCost ==
    /\ op = Idle
    /\ op' = "calculate_cost"
    /\ raised' = IF calculate_cost_raises(amount, tiers, costs)
                 THEN "IndexError" ELSE "none"
    /\ result' = IF calculate_cost_raises(amount, tiers, costs)
                 THEN result ELSE calculate_cost(amount, tiers, costs)
    /\ UNCHANGED <<amount, tiers, costs, lines, parseVars, loadVars, ledgerVars,
                   mainVars>>

CallGetCostPerUnit ==
    /\ op = Idle
    /\ op' = "get_cost_per_unit"
    /\ raised' = IF get_cost_per_unit_raises(amount, tiers, costs)
                 THEN "IndexError" ELSE "none"
    /\ result' = IF get_cost_per_unit_raises(amount, tiers, costs)
                 THEN result ELSE get_cost_per_unit(amount, tiers, costs)
    /\ UNCHANGED <<amount, tiers, costs, lines, parseVars, loadVars, ledgerVars,
                   mainVars>>

NextPricing ==
    \/ CallFindTierIndex
    \/ CallCalculateCost
    \/ CallGetCostPerUnit

SpecPricing == InitPricing /\ [][NextPricing]_vars

(***************************************************************************)
(* Calls of parse_service_entry on arbitrary lists of lines.               *)
(***************************************************************************)
\* The lines the parser is tried on: name lines with and without
\* surrounding spaces, numeric lines (ascending, equal, descending, one
\* value, spaced, negative, two digits), a non-numeric token, an empty line.
ParsePool ==
    { <<"A", ",", "h">>,
      <<" ", "A", " ", ",", " ", "h", " ">>,
      <<"0", ",", "2", ",", "1", "0">>,
      <<"2", ",", "2">>,
      <<"5", ",", "2">>,
      <<"0", ",", " ", "x">>,
      <<"3">>,
      <<" ", "-", "1", " ", ",", " ", "3", " ">>,
      <<>> }

InitParse ==
    /\ LedgerIdle
    /\ MainIdle
    /\ lines \in UNION {[1..n -> ParsePool] : n \in 0..MaxParseLines}
    /\ index \in 0..MaxParseLines
    /\ entry = None
    /\ op = Idle
    /\ amount = 0
    /\ tiers = <<>>
    /\ costs = <<>>
    /\ result = 0
    /\ raised = "none"
    /\ source = <<>>
    /\ services = <<>>
    /\ i = 0
    /\ examined = <<>>
    /\ outcome = "start"

CallParseServiceEntry ==
    /\ op = Idle
    /\ op' = "parse_service_entry"
    /\ entry' = parse_service_entry(lines, index)
    /\ UNCHANGED <<lines, index, pricingVars, loadVars, ledgerVars, mainVars>>

NextParse == CallParseServiceEntry

SpecParse == InitParse /\ [][NextParse]_vars

(***************************************************************************)
(* load_services on arbitrary files.                                       *)
(***************************************************************************)
\* The lines of the files: two name lines for the same name (one with
\* spaces around the line and its fields), numeric lines of two values and
\* of one value, and a blank line.
LoadPool ==
    { <<"A", ",", "h">>,
      <<" ", "A", " ", ",", " ", "g", " ">>,
      <<"0", ",", "1">>,
      <<"1">>,
      <<" ">> }

InitLoad ==
    /\ LedgerIdle
    /\ MainIdle
    /\ source \in {NoFile} \cup
           {File(raw) : raw \in UNION {[1..n -> LoadPool] : n \in 0..MaxLines}}
    /\ outcome = "start"
    /\ lines = <<>>
    /\ services = <<>>
    /\ i = 0
    /\ examined = <<>>
    /\ index = 0
    /\ entry = None
    /\ op = Idle
    /\ amount = 0
    /\ tiers = <<>>
    /\ costs = <<>>
    /\ result = 0
    /\ raised = "none"

\* open(filename) and the reading of its lines
LoadOpen ==
    /\ outcome = "start"
    /\ IF source.exists
       THEN /\ lines' = ReadLines(source.raw)
            /\ outcome' = "loop"
       ELSE /\ lines' = lines
            /\ outcome' = "FileNotFoundError"
    /\ UNCHANGED <<source, services, i, examined, op, pricingVars, parseVars,
                   ledgerVars, mainVars>>

\* One turn of the while loop
LoadWindow ==
    /\ outcome = "loop"
    /\ LoopContinues(i, lines)
    /\ LET service_data == parse_service_entry(lines, i)
       IN /\ services' = IF service_data # None
                         THEN StoreEntry(services, service_data)
                         ELSE services
          /\ i' = NextIndex(i, service_data)
    /\ examined' = Append(examined, i)
    /\ UNCHANGED <<source, lines, outcome, op, pricingVars, parseVars,
                   ledgerVars, mainVars>>

\* The end of the loop and the return or the ValueError
LoadFinish ==
    /\ outcome = "loop"
    /\ ~LoopContinues(i, lines)
    /\ outcome' = LoadResult(services)
    /\ UNCHANGED <<source, lines, services, i, examined, op, pricingVars,
                   parseVars, ledgerVars, mainVars>>

NextLoad ==
    \/ LoadOpen
    \/ LoadWindow
    \/ LoadFinish

SpecLoad == InitLoad /\ [][NextLoad]_vars

(***************************************************************************)
(* main: startup, then the menu loop.  A step runs from one input() call   *)
(* to the next, or to the end of the process.                              *)
(***************************************************************************)
LineA == <<"A", ",", "h">>
LineB == <<"B", ",", "g">>

\* The files of services.csv: none, empty, without any service, one
\* service, two services in both orders
MainFiles ==
    { NoFile,
      File(<<>>),
      File(<<LineA, <<"2", ",", "0">>, <<"3", ",", "1">>>>),
      File(<<LineA, <<"0", ",", "2">>, <<"3", ",", "1">>>>),
      File(<<LineA, <<"0", ",", "2">>, <<"3", ",", "1">>,
             LineB, <<"1">>, <<"2">>>>),
      File(<<LineB, <<"1">>, <<"2">>,
             LineA, <<"0", ",", "2">>, <<"3", ",", "1">>>>) }

\* What is typed at the menu prompt
ChoiceInputs ==
    {Typed(t) : t \in { <<"q">>, <<"Q">>, <<"s">>, <<"$">>, <<"1">>,
                        <<" ", "2", " ">>, <<"0">>, <<"9">>, <<"x">>,
                        <<>>, <<"-", "1">>, <<SUPER2>> }}
    \cup {Interrupted("EOFError"), Interrupted("KeyboardInterrupt")}

\* What is typed at the amount prompt
AmountInputs ==
    {Typed(t) : t \in { <<>>, <<" ">>, <<"x">>, <<"-", "1">>, <<"0">>,
                        <<"3">>, <<" ", "1", " ">>, <<"n", "a", "n">> }}
    \cup {Interrupted("EOFError"), Interrupted("KeyboardInterrupt")}

MENU == "menu"

\* What an input() call can get: anything of the pool, and only EOFError
\* once standard input is at its end
Reads(pool) == IF exhausted THEN {Interrupted("EOFError")} ELSE pool

\* An EOFError from a pipe or a file is final; from a terminal it is not.
AtEndAfter(inp) ==
    IF inp.raises = "EOFError" THEN {TRUE, FALSE} ELSE {exhausted}

InitMain ==
    /\ source \in MainFiles
    /\ outcome = "start"
    /\ services = <<>>
    /\ LedgerIdle
    /\ MainIdle
    /\ op = Idle
    /\ amount = 0
    /\ tiers = <<>>
    /\ costs = <<>>
    /\ result = 0
    /\ raised = "none"
    /\ lines = <<>>
    /\ index = 0
    /\ entry = None
    /\ i = 0
    /\ examined = <<>>

MainFrame ==
    UNCHANGED <<op, pricingVars, parseVars, source, i, examined, arg, ret>>

\* main from its start to the first prompt, or to sys.exit(1)
Startup ==
    /\ pc = "start"
    /\ LET loaded == load_services(source)
       IN /\ outcome' = loaded.outcome
          /\ services' = loaded.services
          /\ lines' = loaded.lines
          /\ IF loaded.outcome \in Fatal
             THEN /\ output' = IF loaded.outcome = "FileNotFoundError"
                                THEN <<"Error: services.csv file not found!">>
                                ELSE <<"Error loading services">>
                  /\ status' = 1
                  /\ pc' = "exit"
                  /\ UNCHANGED <<subscriptions, seen>>
             ELSE /\ subscriptions' = create_subscriptions
                  /\ output' = <<MENU>>
                  /\ seen' = seen \cup {"ledger", MENU}
                  /\ pc' = "menu_prompt"
                  /\ UNCHANGED status
    /\ UNCHANGED <<typed, exhausted, choice, selected>>
    /\ MainFrame

\* The menu prompt is answered: the branch of the loop body, then either
\* the menu again, the amount prompt, or the end of the loop
Choose ==
    /\ pc = "menu_prompt"
    /\ \E inp \in Reads(ChoiceInputs) :
         LET c == get_user_choice(inp)
             branch == Dispatch(c)
             sel == SelectService(c, services)
         IN /\ typed' = inp
            /\ exhausted' \in AtEndAfter(inp)
            /\ choice' = c
            /\ seen' = seen \cup {"choice"}
            /\ CASE branch = "quit" ->
                      /\ output' = <<"Thank you for using ICSC!">>
                      /\ pc' = "exit"
                      /\ UNCHANGED selected
                 [] branch = "list" ->
                      /\ output' = <<"subscriptions", MENU>>
                      /\ UNCHANGED <<pc, selected>>
                 [] branch = "breakdown" ->
                      /\ output' = <<"breakdown", MENU>>
                      /\ UNCHANGED <<pc, selected>>
                 [] branch = "select" /\ sel.found ->
                      /\ output' = sel.printed
                      /\ selected' = sel.service_name
                      /\ pc' = "amount_prompt"
                 [] branch = "select" /\ ~sel.found ->
                      /\ output' = sel.printed \o <<MENU>>
                      /\ UNCHANGED <<pc, selected>>
                 [] branch = "invalid" ->
                      /\ output' =
                             <<"Error: Invalid choice. Please try again.",
                               MENU>>
                      /\ UNCHANGED <<pc, selected>>
    /\ UNCHANGED <<services, subscriptions, lines, outcome, status>>
    /\ MainFrame

\* The amount prompt is answered: the rest of process_service_selection,
\* then the menu again
EnterAmount ==
    /\ pc = "amount_prompt"
    /\ \E inp \in Reads(AmountInputs) :
         LET after == UpdateFromAmount(subscriptions, services, selected, inp)
         IN /\ typed' = inp
            /\ exhausted' \in AtEndAfter(inp)
            /\ subscriptions' = after.subscriptions
            /\ services' = after.services
            /\ output' = after.printed \o <<MENU>>
    /\ pc' = "menu_prompt"
    /\ UNCHANGED <<choice, selected, lines, outcome, status, seen>>
    /\ MainFrame

NextMain ==
    \/ Startup
    \/ Choose
    \/ EnterAmount

SpecMain == InitMain /\ [][NextMain]_vars

\* An input() call at the end of standard input returns at once with
\* EOFError: the step that reads it is taken.
FairMain ==
    /\ WF_vars(exhausted /\ Choose)
    /\ WF_vars(exhausted /\ EnterAmount)

SpecMainFair == SpecMain /\ FairMain


(***************************************************************************)
(* The pricing functions called on the definitions of a loaded catalog.    *)
(***************************************************************************)
\* The tier and cost lines of the files: ascending and descending pairs, a
\* single value, a negative value, nan, a first tier above 0, three values
CatalogNumLines ==
    { <<"0", ",", "2">>,
      <<"3", ",", "1">>,
      <<"1">>,
      <<"-", "1", ",", "0">>,
      <<"n", "a", "n", ",", "4">>,
      <<"2", ",", "4">>,
      <<"0", ",", "2", ",", "4">> }

\* One service per file, with every pair of numeric lines, and one file of
\* two services
CatalogFiles ==
    {File(<<LineA, t, c>>) : t \in CatalogNumLines, c \in CatalogNumLines}
    \cup {File(<<LineA, <<"0", ",", "2">>, <<"3", ",", "1">>,
                 LineB, <<"1">>, <<"2">>>>)}

CatalogAmounts == Amounts \cup {NaN}

InitCatalog ==
    /\ source \in CatalogFiles
    /\ outcome = "start"
    /\ services = <<>>
    /\ LedgerIdle
    /\ MainIdle
    /\ op = Idle
    /\ amount = 0
    /\ tiers = <<>>
    /\ costs = <<>>
    /\ result = 0
    /\ raised = "none"
    /\ lines = <<>>
    /\ index = 0
    /\ entry = None
    /\ i = 0
    /\ examined = <<>>

CatalogFrame ==
    UNCHANGED <<parseVars, source, i, examined, ledgerVars, mainVars>>

\* services = load_services(...)
CatalogLoad ==
    /\ outcome = "start"
    /\ LET loaded == load_services(source)
       IN /\ outcome' = loaded.outcome
          /\ services' = loaded.services
          /\ lines' = loaded.lines
    /\ UNCHANGED <<op, pricingVars>>
    /\ CatalogFrame

\* find_tier_index(amount, service['tiers'])
CatalogFindTierIndex ==
    /\ outcome = "returned"
    /\ \E n \in DOMAIN services, a \in CatalogAmounts :
         /\ amount' = a
         /\ tiers' = services[n].tiers
         /\ costs' = services[n].costs
         /\ result' = find_tier_index(a, services[n].tiers)
    /\ op' = "find_tier_index"
    /\ raised' = "none"
    /\ UNCHANGED <<outcome, services, lines>>
    /\ CatalogFrame

\* calculate_cost(amount, service['tiers'], service['costs'])
CatalogCalculateCost ==
    /\ outcome = "returned"
    /\ \E n \in DOMAIN services, a \in CatalogAmounts :
         LET ts == services[n].tiers
             cs == services[n].costs
         IN /\ amount' = a
            /\ tiers' = ts
            /\ costs' = cs
            /\ raised' = IF calculate_cost_raises(a, ts, cs)
                         THEN "IndexError" ELSE "none"
            /\ result' = IF calculate_cost_raises(a, ts, cs)
                         THEN result ELSE calculate_cost(a, ts, cs)
    /\ op' = "calculate_cost"
    /\ UNCHANGED <<outcome, services, lines>>
    /\ CatalogFrame

\* get_cost_per_unit(amount, service['tiers'], service['costs'])
CatalogGetCostPerUnit ==
    /\ outcome = "returned"
    /\ \E n \in DOMAIN services, a \in CatalogAmounts :
         LET ts == services[n].tiers
             cs == services[n].costs
         IN /\ amount' = a
            /\ tiers' = ts
            /\ costs' = cs
            /\ raised' = IF get_cost_per_unit_raises(a, ts, cs)
                         THEN "IndexError" ELSE "none"
            /\ result' = IF get_cost_per_unit_raises(a, ts, cs)
                         THEN result ELSE get_cost_per_unit(a, ts, cs)
    /\ op' = "get_cost_per_unit"
    /\ UNCHANGED <<outcome, services, lines>>
    /\ CatalogFrame

NextCatalog ==
    \/ CatalogLoad
    \/ CatalogFindTierIndex
    \/ CatalogCalculateCost
    \/ CatalogGetCostPerUnit

SpecCatalog == InitCatalog /\ [][NextCatalog]_vars


(***************************************************************************)
(* Calls of the ledger functions, in any order, on one ledger.             *)
(***************************************************************************)
LedgerNames == {<<"A">>, <<"B">>, <<"C">>}
LedgerAmounts == {0 - 1, 0, 1, 3, NaN}

\* The catalogs the ledger is priced against; "C" is in neither.
CatalogA ==
    DictSet(<<>>, <<"A">>,
            [units |-> <<"h">>, tiers |-> <<0, 2>>, costs |-> <<3, 1>>])
CatalogAB ==
    DictSet(CatalogA, <<"B">>,
            [units |-> <<"g">>, tiers |-> <<1>>, costs |-> <<2>>])
LedgerCatalogs == {CatalogA, CatalogAB}

NoArg == [name |-> <<>>, amount |-> 0]

InitLedger ==
    /\ subscriptions = create_subscriptions
    /\ services \in LedgerCatalogs
    /\ op = Idle
    /\ arg = NoArg
    /\ ret = 0
    /\ MainIdle
    /\ amount = 0
    /\ tiers = <<>>
    /\ costs = <<>>
    /\ result = 0
    /\ raised = "none"
    /\ lines = <<>>
    /\ index = 0
    /\ entry = None
    /\ source = NoFile
    /\ i = 0
    /\ examined = <<>>
    /\ outcome = "returned"

LedgerFrame ==
    UNCHANGED <<pricingVars, lines, parseVars, source, services, i, examined,
                outcome, mainVars>>

CallAddSubscription ==
    \E n \in LedgerNames, a \in LedgerAmounts :
        LET r == add_subscription(subscriptions, n, a)
        IN /\ op' = "add_subscription"
           /\ arg' = [name |-> n, amount |-> a]
           /\ subscriptions' = r.subscriptions
           /\ ret' = r.ret
           /\ LedgerFrame

CallGetSubscriptionAmount ==
    \E n \in LedgerNames :
        /\ op' = "get_subscription_amount"
        /\ arg' = [name |-> n, amount |-> 0]
        /\ ret' = get_subscription_amount(subscriptions, n)
        /\ UNCHANGED subscriptions
        /\ LedgerFrame

CallGetAllSubscriptions ==
    /\ op' = "get_all_subscriptions"
    /\ arg' = NoArg
    /\ ret' = get_all_subscriptions(subscriptions)
    /\ UNCHANGED subscriptions
    /\ LedgerFrame

CallHasSubscriptions ==
    /\ op' = "has_subscriptions"
    /\ arg' = NoArg
    /\ ret' = has_subscriptions(subscriptions)
    /\ UNCHANGED subscriptions
    /\ LedgerFrame

CallRemoveSubscription ==
    \E n \in LedgerNames :
        LET r == remove_subscription(subscriptions, n)
        IN /\ op' = "remove_subscription"
           /\ arg' = [name |-> n, amount |-> 0]
           /\ subscriptions' = r.subscriptions
           /\ ret' = r.ret
           /\ LedgerFrame

CallClearAllSubscriptions ==
    /\ op' = "clear_all_subscriptions"
    /\ arg' = NoArg
    /\ subscriptions' = clear_all_subscriptions(subscriptions)
    /\ ret' = 0
    /\ LedgerFrame

CallCalculateTotalCost ==
    /\ op' = "calculate_total_cost"
    /\ arg' = NoArg
    /\ ret' = calculate_total_cost(subscriptions, services)
    /\ UNCHANGED subscriptions
    /\ LedgerFrame

CallDisplayCostBreakdown ==
    /\ op' = "display_cost_breakdown"
    /\ arg' = NoArg
    /\ ret' = display_cost_breakdown(subscriptions, services)
    /\ UNCHANGED subscriptions
    /\ LedgerFrame

NextLedger ==
    \/ CallAddSubscription
    \/ CallGetSubscriptionAmount
    \/ CallGetAllSubscriptions
    \/ CallHasSubscriptions
    \/ CallRemoveSubscription
    \/ CallClearAllSubscriptions
    \/ CallCalculateTotalCost
    \/ CallDisplayCostBreakdown

SpecLedger == InitLedger /\ [][NextLedger]_vars

(***************************************************************************)
(* Properties of the pricing engine.                                       *)
(***************************************************************************)
StrictlyAscending(ts) ==
    \A k \in 1..(Len(ts) - 1) : ts[k] < ts[k + 1]

\* The invariant of a ServiceDefinition, on a tiers/rates pair.
ValidPair(ts, cs) ==
    /\ Len(ts) = Len(cs)
    /\ Len(ts) >= 1
    /\ StrictlyAscending(ts)
    /\ \A k \in 1..Len(ts) : ts[k] >= 0
    /\ \A k \in 1..Len(cs) : cs[k] > 0

\* k (0-based) is a band that holds amt: its start is at or below amt and
\* the next band, if any, starts above amt.
InBand(amt, ts, k) ==
    /\ k \in Range(0, Len(ts))
    /\ At(ts, k) <= amt
    /\ (k = Len(ts) - 1 \/ amt < At(ts, k + 1))

\* The band billed for amt: the band that holds it, the first band when amt
\* is below every boundary.
BilledBand(amt, ts) ==
    IF amt < At(ts, 0) THEN 0
    ELSE CHOOSE k \in Range(0, Len(ts)) : InBand(amt, ts, k)

\* C1: for every amount > 0 and every valid tiers/rates pair calculate_cost
\* returns the whole amount times the rate of the one matched tier.
C1_WholeAmountSingleRate ==
    (op = "calculate_cost" /\ amount > 0 /\ ValidPair(tiers, costs))
        => result = amount * At(costs, BilledBand(amount, tiers))

\* A call where whole-amount and progressive billing differ: the amount is
\* past the second boundary and the two rates are different.
C1_Witness ==
    /\ op = "calculate_cost"
    /\ ValidPair(tiers, costs)
    /\ Len(tiers) >= 2
    /\ amount > At(tiers, 1)
    /\ At(costs, 0) # At(costs, 1)
    /\ result = amount * At(costs, BilledBand(amount, tiers))
    /\ result # MarginalSum(amount, tiers, costs, 0)

\* C2: for strictly ascending non-empty tiers and amount >= tiers[0],
\* find_tier_index returns the unique band that holds the amount; a
\* boundary value belongs to the band it starts.
C2_UniqueInclusiveBand ==
    (op = "find_tier_index" /\ Len(tiers) >= 1 /\ StrictlyAscending(tiers)
        /\ amount >= At(tiers, 0))
        => /\ InBand(amount, tiers, result)
           /\ \A k \in Range(0, Len(tiers)) :
                  InBand(amount, tiers, k) => k = result
           /\ \A k \in Range(0, Len(tiers)) :
                  amount = At(tiers, k) => result = k

\* A call with the amount exactly on an inner boundary.
C2_Witness ==
    /\ op = "find_tier_index"
    /\ StrictlyAscending(tiers)
    /\ Len(tiers) >= 3
    /\ amount = At(tiers, 1)
    /\ result = 1

\* C3 as stated: for EVERY non-empty tiers sequence and amount < tiers[0],
\* find_tier_index returns 0 and calculate_cost bills at rates[0].
C3_FallbackAnyTiers ==
    /\ (op = "find_tier_index" /\ Len(tiers) >= 1 /\ amount < At(tiers, 0))
           => result = 0
    /\ (op = "calculate_cost" /\ Len(tiers) >= 1 /\ 0 < amount
           /\ amount < At(tiers, 0))
           => result = amount * At(costs, 0)

\* C3 amended: for every non-empty STRICTLY ASCENDING tiers sequence and
\* amount < tiers[0], find_tier_index returns 0, and for
\* 0 < amount < tiers[0] calculate_cost returns amount * rates[0].
C3_FallbackAscendingTiers ==
    /\ (op = "find_tier_index" /\ Len(tiers) >= 1 /\ StrictlyAscending(tiers)
           /\ amount < At(tiers, 0))
           => result = 0
    /\ (op = "calculate_cost" /\ Len(tiers) >= 1 /\ StrictlyAscending(tiers)
           /\ 0 < amount /\ amount < At(tiers, 0))
           => result = amount * At(costs, 0)

\* A positive amount below the first of several boundaries, billed at
\* rates[0], which differs from the last rate.
C3_Witness ==
    /\ op = "calculate_cost"
    /\ StrictlyAscending(tiers)
    /\ Len(tiers) >= 2
    /\ 0 < amount
    /\ amount < At(tiers, 0)
    /\ At(costs, 0) # At(costs, Len(costs) - 1)
    /\ result = amount * At(costs, 0)

\* C4: for every valid pair calculate_cost returns 0 for every amount <= 0
\* and get_cost_per_unit returns 0 for every amount < 0.
C4_SaturatingFloor ==
    /\ (op = "calculate_cost" /\ amount <= 0 /\ ValidPair(tiers, costs))
           => result = 0
    /\ (op = "get_cost_per_unit" /\ amount < 0 /\ ValidPair(tiers, costs))
           => result = 0

\* A negative amount priced against a valid pair.
C4_Witness ==
    /\ op = "calculate_cost"
    /\ amount < 0
    /\ ValidPair(tiers, costs)
    /\ result = 0

(***************************************************************************)
(* The record format, stated without the parser: the fields of a line are  *)
(* the stretches between its commas, a trimmed field is the stretch from   *)
(* its first to its last non-space character, and a number is the decimal  *)
(* text of an integer.                                                     *)
(***************************************************************************)
NumVals == (0 - 20) .. 20

SetMin(S) == CHOOSE x \in S : \A y \in S : x <= y
SetMax(S) == CHOOSE x \in S : \A y \in S : x >= y

CommaPositions(s) == {k \in 1..Len(s) : s[k] = COMMA}
NFields(s) == Cardinality(CommaPositions(s)) + 1
NthComma(s, n) ==
    CHOOSE p \in CommaPositions(s) :
        Cardinality({q \in CommaPositions(s) : q < p}) = n - 1
Field(s, n) ==
    SubSeq(s,
           IF n = 1 THEN 1 ELSE NthComma(s, n - 1) + 1,
           IF n = NFields(s) THEN Len(s) ELSE NthComma(s, n) - 1)
Trimmed(f) ==
    LET ns == {k \in 1..Len(f) : f[k] # SP}
    IN IF ns = {} THEN <<>> ELSE SubSeq(f, SetMin(ns), SetMax(ns))
Tokens(s) == [k \in 1..NFields(s) |-> Trimmed(Field(s, k))]

RECURSIVE ShowNat(_)
ShowNat(n) ==
    IF n < 10 THEN <<Digits[n + 1]>>
    ELSE ShowNat(n \div 10) \o <<Digits[(n % 10) + 1]>>
\* The decimal text of an integer
Show(v) == IF v < 0 THEN <<"-">> \o ShowNat(0 - v) ELSE ShowNat(v)

IsNumber(tok) == \E v \in NumVals : Show(v) = tok
NumberOf(tok) == CHOOSE v \in NumVals : Show(v) = tok
AllNumbers(s) == \A k \in 1..NFields(s) : IsNumber(Tokens(s)[k])
Numbers(s) == [k \in 1..NFields(s) |-> NumberOf(Tokens(s)[k])]

\* The three lines from idx on form a well-formed triplet.
WellFormed(ls, idx) ==
    /\ idx + 3 <= Len(ls)
    /\ NFields(At(ls, idx)) = 2
    /\ AllNumbers(At(ls, idx + 1))
    /\ AllNumbers(At(ls, idx + 2))
    /\ NFields(At(ls, idx + 1)) = NFields(At(ls, idx + 2))
    /\ StrictlyAscending(Numbers(At(ls, idx + 1)))

\* The definition a well-formed triplet declares.
Declared(ls, idx) ==
    [name |-> Tokens(At(ls, idx))[1],
     units |-> Tokens(At(ls, idx))[2],
     tiers |-> Numbers(At(ls, idx + 1)),
     costs |-> Numbers(At(ls, idx + 2))]

\* Two adjacent tokens of the line are numbers and the first is not below
\* the second.
AdjacentNotAscending(s) ==
    \E k \in 1..(NFields(s) - 1) :
        /\ IsNumber(Tokens(s)[k])
        /\ IsNumber(Tokens(s)[k + 1])
        /\ NumberOf(Tokens(s)[k]) >= NumberOf(Tokens(s)[k + 1])

\* One of the five reject conditions of parse_entry holds.
RejectCase(ls, idx) ==
    \/ idx + 3 > Len(ls)
    \/ idx < Len(ls) /\ NFields(At(ls, idx)) # 2
    \/ idx + 1 < Len(ls) /\ ~AllNumbers(At(ls, idx + 1))
    \/ idx + 2 < Len(ls) /\ ~AllNumbers(At(ls, idx + 2))
    \/ idx + 2 < Len(ls)
          /\ NFields(At(ls, idx + 1)) # NFields(At(ls, idx + 2))
    \/ idx + 1 < Len(ls) /\ AdjacentNotAscending(At(ls, idx + 1))

\* C6: parse_service_entry returns None, and raises nothing, whenever the
\* name line has not exactly two fields, a tier or rate token is not
\* numeric, the counts differ, two adjacent tiers are not ascending (equal
\* included) or fewer than 3 lines are available from the index.
C6_RejectsWithoutRaising ==
    (op = "parse_service_entry" /\ RejectCase(lines, index))
        => entry = None

\* A triplet whose only defect is a pair of equal adjacent tiers.
C6_Witness ==
    /\ op = "parse_service_entry"
    /\ index + 3 <= Len(lines)
    /\ NFields(At(lines, index)) = 2
    /\ AllNumbers(At(lines, index + 1))
    /\ AllNumbers(At(lines, index + 2))
    /\ NFields(At(lines, index + 1)) = NFields(At(lines, index + 2))
    /\ \E k \in 1..(NFields(At(lines, index + 1)) - 1) :
           Numbers(At(lines, index + 1))[k]
               = Numbers(At(lines, index + 1))[k + 1]
    /\ entry = None

\* C7: for a well-formed triplet parse_service_entry returns the definition
\* with the two trimmed fields as name and units and the parsed values, in
\* the order and number of the input, as tiers and costs.
C7_AcceptsAndRoundTrips ==
    (op = "parse_service_entry" /\ WellFormed(lines, index))
        => entry = Declared(lines, index)

\* A well-formed triplet, not at index 0, whose name line and tier line
\* carry spaces around their fields and which has several tiers.
C7_Witness ==
    /\ op = "parse_service_entry"
    /\ index > 0
    /\ WellFormed(lines, index)
    /\ Field(At(lines, index), 1) # Tokens(At(lines, index))[1]
    /\ Field(At(lines, index + 1), 1) # Tokens(At(lines, index + 1))[1]
    /\ NFields(At(lines, index + 1)) >= 2
    /\ entry = Declared(lines, index)

\* A well-formed triplet with a single tier.
C7_SingleTierAccepted ==
    /\ op = "parse_service_entry"
    /\ WellFormed(lines, index)
    /\ NFields(At(lines, index + 1)) = 1
    /\ entry = Declared(lines, index)

(***************************************************************************)
(* Properties of load_services.                                            *)
(***************************************************************************)
Finished == outcome \in {"returned", "ValueError"}

\* The number of whole windows of three lines, and their start indexes
Windows == Len(lines) \div 3
WindowStarts == {3 * k : k \in 0..(Windows - 1)}

\* The stride-3 windows that hold a well-formed triplet
GoodStarts == {w \in WindowStarts : WellFormed(lines, w)}

\* The stored form of the definition a well-formed window declares
DeclaredService(w) ==
    [units |-> Declared(lines, w).units,
     tiers |-> Declared(lines, w).tiers,
     costs |-> Declared(lines, w).costs]

\* C5 as stated: every definition of a returned catalog has as many rates
\* as tiers, at least one tier, strictly ascending tiers, no negative tier
\* and only positive rates.
C5_CatalogInvariant ==
    outcome = "returned" =>
        \A n \in DOMAIN services :
            ValidPair(services[n].tiers, services[n].costs)

\* C8: the loader hands to the parser exactly the windows that start at
\* 0, 3, 6, ... and lie wholly inside the lines, whether or not the window
\* before parsed; every well-formed window among them is loaded and nothing
\* else is, so a trailing group of 1 or 2 lines contributes nothing.
C8_FixedStride ==
    /\ outcome = "loop" =>
           /\ i = 3 * Len(examined)
           /\ \A k \in 1..Len(examined) : examined[k] = 3 * (k - 1)
    /\ Finished =>
           /\ Len(examined) = Windows
           /\ \A k \in 1..Len(examined) : examined[k] = 3 * (k - 1)
           /\ \A w \in GoodStarts : Declared(lines, w).name \in DOMAIN services
           /\ \A n \in DOMAIN services :
                  \E w \in GoodStarts : Declared(lines, w).name = n

\* A load of six lines whose first window is malformed and whose second
\* window is well-formed and loaded.
C8_Witness ==
    /\ outcome = "returned"
    /\ Len(lines) = 6
    /\ ~WellFormed(lines, 0)
    /\ WellFormed(lines, 3)
    /\ Declared(lines, 3).name \in DOMAIN services
    /\ examined = <<0, 3>>

\* A load with a trailing group of two lines after one loaded window.
C8_TrailingGroup ==
    /\ outcome = "returned"
    /\ Len(lines) = 5
    /\ examined = <<0>>

\* C9: load_services ends with the ValueError exactly when the catalog is
\* empty after all windows, that is when no stride-3 window is well-formed
\* (no line at all, fewer than 3 lines, only malformed triplets); when it
\* returns, the catalog is not empty.
C9_EmptyCatalogRaises ==
    Finished =>
        /\ (outcome = "ValueError") <=> (DOMAIN services = {})
        /\ (outcome = "ValueError") <=> (GoodStarts = {})
        /\ (outcome = "returned") => (DOMAIN services # {})

\* A file of malformed triplets only.
C9_Witness ==
    /\ outcome = "ValueError"
    /\ Len(lines) >= 3
    /\ examined # <<>>
    /\ GoodStarts = {}

\* C10: for every name of a returned catalog the catalog holds the units,
\* tiers and costs of the last well-formed window carrying that name.
C10_LastWriteWins ==
    outcome = "returned" =>
        \A n \in DOMAIN services :
            LET ws == {w \in GoodStarts : Declared(lines, w).name = n}
            IN /\ ws # {}
               /\ services[n] = DeclaredService(SetMax(ws))

\* Two well-formed windows with one name and different definitions.
C10_Witness ==
    /\ outcome = "returned"
    /\ GoodStarts = {0, 3}
    /\ Declared(lines, 0).name = Declared(lines, 3).name
    /\ DeclaredService(0) # DeclaredService(3)
    /\ Cardinality(DOMAIN services) = 1
    /\ services[Declared(lines, 3).name] = DeclaredService(3)

(***************************************************************************)
(* Properties of the ledger.                                               *)
(***************************************************************************)
\* C12: add_subscription with a negative amount returns False and leaves
\* the whole ledger as it was; with an amount >= 0 it returns True.
C12_NegativeAmountRejected ==
    [][op' = "add_subscription" =>
          /\ FLt(arg'.amount, 0) =>
                 (ret' = FALSE /\ subscriptions' = subscriptions)
          /\ FGe(arg'.amount, 0) => ret' = TRUE]_vars

\* A negative amount refused for a service that has an amount stored.
C12_Witness ==
    /\ op = "add_subscription"
    /\ FLt(arg.amount, 0)
    /\ ret = FALSE
    /\ arg.name \in DOMAIN subscriptions
    /\ FGt(subscriptions[arg.name], 0)

\* C13: after any sequence of add_subscription, remove_subscription and
\* clear_all_subscriptions calls every stored amount is >= 0.
C13_StoredAmountsNonNegative ==
    \A n \in DOMAIN subscriptions : FGe(subscriptions[n], 0)

\* C14: get_subscription_amount returns 0 for a service never set or after
\* a clear; after a successful add_subscription(name, a) it returns a for
\* name and what it returned before for every other service.
C14_ReadWriteLaw ==
    [][/\ op' = "get_subscription_amount" =>
              ret' = IF arg'.name \in DOMAIN subscriptions
                     THEN subscriptions[arg'.name] ELSE 0
       /\ op = Idle =>
              \A n \in LedgerNames :
                  get_subscription_amount(subscriptions, n) = 0
       /\ op' = "clear_all_subscriptions" =>
              \A n \in LedgerNames :
                  get_subscription_amount(subscriptions', n) = 0
       /\ (op' = "add_subscription" /\ ret' = TRUE) =>
              /\ get_subscription_amount(subscriptions', arg'.name)
                     = arg'.amount
              /\ \A n \in LedgerNames \ {arg'.name} :
                     get_subscription_amount(subscriptions', n)
                         = get_subscription_amount(subscriptions, n)]_vars

\* An amount written over the stored amounts of two services.
C14_Witness ==
    /\ op = "add_subscription"
    /\ ret = TRUE
    /\ get_subscription_amount(subscriptions, arg.name) = 1
    /\ \E n \in DOMAIN subscriptions \ {arg.name} : subscriptions[n] = 3
    /\ Cardinality(DOMAIN subscriptions) = 2

\* C15: get_all_subscriptions returns exactly the entries whose amount is
\* > 0, and has_subscriptions is True exactly when there is such an entry.
C15_ActiveMeansPositive ==
    LET active == {n \in DOMAIN subscriptions :
                       subscriptions[n] # NaN /\ subscriptions[n] > 0}
    IN /\ DOMAIN get_all_subscriptions(subscriptions) = active
       /\ \A n \in active :
              get_all_subscriptions(subscriptions)[n] = subscriptions[n]
       /\ has_subscriptions(subscriptions) <=> (active # {})
       /\ op = "get_all_subscriptions" =>
              (DOMAIN ret = active /\ \A n \in active : ret[n] = subscriptions[n])
       /\ op = "has_subscriptions" => (ret <=> (active # {}))

\* A ledger with an entry stored as 0 and an active one, listed.
C15_Witness ==
    /\ op = "get_all_subscriptions"
    /\ \E n \in DOMAIN subscriptions : subscriptions[n] = 0
    /\ \E n \in DOMAIN subscriptions : FGt(subscriptions[n], 0)
    /\ Cardinality(DOMAIN ret) = 1

(***************************************************************************)
(* Properties of the unit rate and of the totals.                          *)
(***************************************************************************)
\* C19: for every amount >= 0, 0 included, and every valid pair
\* get_cost_per_unit returns the rate of the band calculate_cost bills,
\* not multiplied by the amount.
C19_UnitRateOfBilledBand ==
    (op = "get_cost_per_unit" /\ amount >= 0 /\ ValidPair(tiers, costs))
        => /\ result = At(costs, BilledBand(amount, tiers))
           /\ result = At(costs, find_tier_index(amount, tiers))
           /\ amount > 0 =>
                  calculate_cost(amount, tiers, costs) = amount * result

\* The rate asked for the amount 0.
C19_Witness ==
    /\ op = "get_cost_per_unit"
    /\ amount = 0
    /\ ValidPair(tiers, costs)
    /\ Len(tiers) >= 2
    /\ result = At(costs, 0)
    /\ result > 0

\* The entries that count: active and of a service of the catalog.
Billable == {n \in DOMAIN subscriptions :
                 /\ subscriptions[n] # NaN
                 /\ subscriptions[n] > 0
                 /\ n \in DOMAIN services}

PriceOf(n) ==
    calculate_cost(subscriptions[n], services[n].tiers, services[n].costs)

RECURSIVE SumOfPrices(_)
SumOfPrices(S) ==
    IF S = {} THEN 0
    ELSE LET n == CHOOSE x \in S : TRUE
         IN PriceOf(n) + SumOfPrices(S \ {n})

C20_TwoServices ==
    /\ op = "display_cost_breakdown"
    /\ Cardinality(Billable) = 2
    /\ Len(ret.rows) = 2
    /\ ret.total = ret.rows[1].cost + ret.rows[2].cost
    /\ ret.rows[1].cost # ret.rows[2].cost

\* The two startup conditions, read off the file: it does not exist, or no
\* stride-3 window of its lines holds a well-formed triplet.
SourceNotFound == ~source.exists
EmptyCatalog == source.exists /\ GoodStarts = {}

\* C11: when the file is missing or the catalog would be empty, main ends
\* with a non-zero status and has neither displayed the menu, read a choice
\* nor created the ledger; nothing else ends the program at startup.
C11_StartupFailuresFatal ==
    pc # "start" =>
        /\ (SourceNotFound \/ EmptyCatalog) =>
               /\ pc = "exit"
               /\ status # 0
               /\ seen = {}
               /\ \A k \in 1..Len(output) : output[k] # MENU
               /\ choice = <<>>
               /\ typed = NoInput
               /\ subscriptions = <<>>
        /\ ~(SourceNotFound \/ EmptyCatalog) =>
               /\ {"ledger", MENU} \subseteq seen
               /\ status = 0

\* A file of one malformed triplet ended the program.
C11_Witness ==
    /\ pc = "exit"
    /\ outcome = "ValueError"
    /\ EmptyCatalog
    /\ Len(lines) = 3
    /\ status = 1

\* A missing file ended the program.
C11_MissingFile ==
    /\ pc = "exit"
    /\ outcome = "FileNotFoundError"
    /\ SourceNotFound
    /\ status = 1

\* An amount entry that is the text of a non-negative number, read without
\* float(): spaces around the decimal digits of a value from 0 up.
EntersNonNegativeNumber(inp) ==
    /\ inp.raises = "none"
    /\ \E v \in 0..20 : Trimmed(inp.text) = Show(v)

\* The amount step left everything as it was and went back to the menu.
RecoveredLocally ==
    /\ subscriptions' = subscriptions
    /\ services' = services
    /\ status' = status
    /\ pc' = "menu_prompt"
    /\ output'[Len(output')] = MENU
    /\ \A k \in 1..Len(output') : output'[k] # "Subscription updated"

\* C16: an amount entry that is not a non-negative number (not numeric,
\* negative, blank, end of input, interrupt) leaves the ledger unchanged,
\* does not end the process and leads back to the menu prompt.
C16_InvalidAmountRecovered ==
    [][(pc = "amount_prompt" /\ ~EntersNonNegativeNumber(typed'))
           => RecoveredLocally]_vars

\* The same for every rejected entry other than the text "nan".
C16_RejectedEntriesRecovered ==
    [][(/\ pc = "amount_prompt"
        /\ ~EntersNonNegativeNumber(typed')
        /\ strip(typed'.text) # NanText)
           => RecoveredLocally]_vars

\* C16, the entries that are taken: a non-negative number is stored for the
\* selected service.
C16_NumberStored ==
    [][(pc = "amount_prompt" /\ EntersNonNegativeNumber(typed'))
           => /\ selected \in DOMAIN subscriptions'
              /\ Show(subscriptions'[selected]) = Trimmed(typed'.text)]_vars

\* A choice, as get_user_choice returns it, that is the number of a listed
\* service: decimal digits whose value is between 1 and the service count.
ListedNumber(c) ==
    /\ c # <<>>
    /\ \A k \in 1..Len(c) : c[k] \in DigitSet
    /\ DecimalValue(c) \in 1..Cardinality(DOMAIN services)

UnknownSelection(c) ==
    /\ c \notin {<<"q">>, <<"s">>, <<"$">>}
    /\ ~ListedNumber(c)

PrintsError(out) ==
    \E k \in 1..Len(out) :
        out[k] \in {"Error: Invalid choice. Please try again.",
                    "Error: Invalid service number."}

\* C17: a choice that is not q, s, $ or the number of a listed service
\* prints an error message, changes neither the ledger nor the catalog,
\* does not end the process, and the menu is displayed again.
C17_UnknownSelectionReported ==
    [][(pc = "menu_prompt" /\ UnknownSelection(choice'))
           => /\ PrintsError(output')
              /\ subscriptions' = subscriptions
              /\ services' = services
              /\ status' = status
              /\ pc' = "menu_prompt"
              /\ output'[Len(output')] = MENU]_vars

\* The same without the error message: every unknown choice is recovered.
C17_UnknownSelectionNotFatal ==
    [][(pc = "menu_prompt" /\ UnknownSelection(choice'))
           => /\ subscriptions' = subscriptions
              /\ services' = services
              /\ status' = status
              /\ pc' = "menu_prompt"
              /\ output'[Len(output')] = MENU]_vars

\* The same with the error message, for every unknown choice in which all
\* characters with the digit property are decimal digits.
C17_ErrorUnlessDigitLike ==
    [][(/\ pc = "menu_prompt"
        /\ UnknownSelection(choice')
        /\ choice' # <<SUPER2>>)
           => PrintsError(output')]_vars

\* C18: once main has loaded the catalog, no step of the menu loop (a
\* selection with any amount entry, s, $, an invalid choice, q) changes the
\* catalog: its names and every definition's units, tiers and costs stay.
C18_CatalogImmutable ==
    [][pc # "start" => services' = services]_vars

\* Both services of a catalog have an amount stored from the menu, one of
\* them 0, and the catalog is the one load_services returned.
C18_Witness ==
    /\ pc = "menu_prompt"
    /\ Cardinality(DOMAIN services) = 2
    /\ DOMAIN subscriptions = DOMAIN services
    /\ \E n \in DOMAIN subscriptions : subscriptions[n] = 0
    /\ \E n \in DOMAIN subscriptions : FGt(subscriptions[n], 0)
    /\ choice = <<"$">>
    /\ services = load_services(source).services

\* C21: every definition of a returned catalog has at least one tier and as
\* many costs as tiers, and on it, for every amount, find_tier_index returns
\* an index of tiers that is an index of costs, and calculate_cost and
\* get_cost_per_unit do not raise.
C21_NoPricingCallFails ==
    /\ outcome = "returned" =>
           \A n \in DOMAIN services :
               /\ Len(services[n].tiers) >= 1
               /\ Len(services[n].costs) = Len(services[n].tiers)
               /\ \A a \in CatalogAmounts :
                      find_tier_index(a, services[n].tiers)
                          \in Range(0, Len(services[n].tiers))
    /\ op # Idle =>
           /\ raised = "none"
           /\ op = "find_tier_index" =>
                  /\ result \in Range(0, Len(tiers))
                  /\ ~IndexRaises(costs, result)

\* The price of an amount above the last of three boundaries.
C21_Witness ==
    /\ op = "calculate_cost"
    /\ Len(tiers) = 3
    /\ amount > At(tiers, 2)
    /\ raised = "none"
    /\ result = amount * At(costs, 2)

\* The rate of a positive amount below tiers[0], and of a negative one.
C21_BelowFirstTier ==
    /\ op = "get_cost_per_unit"
    /\ amount > 0
    /\ FLt(amount, At(tiers, 0))
    /\ raised = "none"
    /\ result = At(costs, 0)

\* The index of an amount among tiers that hold nan.
C21_NanTier ==
    /\ op = "find_tier_index"
    /\ At(tiers, 0) = NaN
    /\ amount = 4
    /\ result = 1

\* What ends the loop when it is read at the menu prompt: the letter q in
\* either case with spaces around it, end of input, an interrupt.
QuitInput(inp) ==
    \/ inp.raises \in {"EOFError", "KeyboardInterrupt"}
    \/ Trimmed(inp.text) \in {<<"q">>, <<"Q">>}

\* C22: after startup the process ends only by a step from the menu prompt
\* that reads q, end of input or an interrupt, and every such step ends it
\* with status 0; no step from the amount prompt ends it; and once standard
\* input is at its end the process ends, also when the end was first met at
\* the amount prompt.
C22_MainLoopTermination ==
    /\ [][(pc # "start" /\ pc' = "exit")
              => (pc = "menu_prompt" /\ QuitInput(typed'))]_vars
    /\ [][(pc = "menu_prompt" /\ QuitInput(typed'))
              => (pc' = "exit" /\ status' = 0)]_vars
    /\ [][pc = "amount_prompt" => pc' = "menu_prompt"]_vars
    /\ (exhausted ~> pc = "exit")

\* End of input was met at the amount prompt: the menu is displayed again
\* and the next read is at the end of input.
C22_Witness ==
    /\ pc = "menu_prompt"
    /\ exhausted
    /\ typed = Interrupted("EOFError")
    /\ selected \in DOMAIN services
    /\ output = <<MENU>>

\* The process has ended with status 0 after the input was exhausted.
C22_Ended ==
    /\ pc = "exit"
    /\ exhausted
    /\ selected \in DOMAIN services
    /\ choice = <<"q">>
    /\ status = 0

\* The n-th name of the catalog in ascending order: the one with n - 1
\* names below it.
NthName(n) ==
    CHOOSE x \in DOMAIN services :
        Cardinality({y \in DOMAIN services : StrLess(y, x)}) = n - 1

\* C23: a choice that is the number n of a listed service leads to the
\* amount prompt for the n-th name of the catalog in ascending order, which
\* is the name the menu displays with n; a non-negative number entered there
\* becomes the amount of that name and no other entry changes; and the keys
\* of the ledger are always names of the catalog.
C23_SelectionTargetsDisplayedService ==
    /\ [](pc # "start" => DOMAIN subscriptions \subseteq DOMAIN services)
    /\ [][(pc = "menu_prompt" /\ ListedNumber(choice'))
              => /\ pc' = "amount_prompt"
                 /\ selected' = NthName(DecimalValue(choice'))
                 /\ selected' = MenuNumbering(services)[DecimalValue(choice')]
                 /\ subscriptions' = subscriptions]_vars
    /\ [][(pc = "amount_prompt" /\ EntersNonNegativeNumber(typed'))
              => /\ ListedNumber(choice)
                 /\ LET n == NthName(DecimalValue(choice))
                    IN /\ DOMAIN subscriptions' = DOMAIN subscriptions \cup {n}
                       /\ Show(subscriptions'[n]) = Trimmed(typed'.text)
                       /\ \A x \in DOMAIN subscriptions \ {n} :
                              subscriptions'[x] = subscriptions[x]]_vars

\* In a catalog loaded from a file that has B before A, the choice 2 and
\* the amount 3 have set the amount of B, and A keeps its amount 1.
C23_Witness ==
    /\ pc = "menu_prompt"
    /\ Head(source.raw) = LineB
    /\ choice = <<"2">>
    /\ typed = Typed(<<"3">>)
    /\ DOMAIN subscriptions = {<<"A">>, <<"B">>}
    /\ subscriptions[<<"A">>] = 1
    /\ subscriptions[<<"B">>] = 3

\* C24: for every amount, negative, zero or positive, and every valid
\* tiers/costs pair, the price is the amount times the unit rate:
\* calculate_cost(amount, tiers, costs) =
\* amount * get_cost_per_unit(amount, tiers, costs).
C24_PriceIsAmountTimesRate ==
    (op \in {"calculate_cost", "get_cost_per_unit"} /\ ValidPair(tiers, costs))
        => LET price == IF op = "calculate_cost" THEN result
                        ELSE calculate_cost(amount, tiers, costs)
               rate == IF op = "get_cost_per_unit" THEN result
                       ELSE get_cost_per_unit(amount, tiers, costs)
           IN /\ raised = "none"
              /\ price = amount * rate
              /\ amount < 0 => (price = 0 /\ rate = 0)
              /\ amount = 0 => (price = 0 /\ rate > 0)

\* The rate of an amount in the last of three tiers, whose rate is not the
\* first one, and the price it gives.
C24_Witness ==
    /\ op = "get_cost_per_unit"
    /\ ValidPair(tiers, costs)
    /\ Len(tiers) = 3
    /\ amount >= At(tiers, 2)
    /\ result = At(costs, 2)
    /\ result # At(costs, 0)
    /\ calculate_cost(amount, tiers, costs) = amount * result
    /\ calculate_cost(amount, tiers, costs) > 0

\* The price and the rate of a negative amount.
C24_Negative ==
    /\ op = "calculate_cost"
    /\ ValidPair(tiers, costs)
    /\ amount < 0
    /\ result = 0
    /\ get_cost_per_unit(amount, tiers, costs) = 0

====
